---- MODULE Spec2Model ----
(***************************************************************************)
(* uuid-b64: a newtype around a 16-byte Uuid that displays and parses as   *)
(* url-safe base64 without padding (src/src/lib.rs).                       *)
(*                                                                         *)
(* Text is a sequence of bytes (the UTF-8 bytes of a &str; every text of   *)
(* the model is ASCII).  A Uuid is a sequence of 16 bytes.  A UuidB64 is   *)
(* the tuple struct around it, the record [f0 |-> uuid].                   *)
(***************************************************************************)
EXTENDS Integers, Sequences, FiniteSets, TLC

VARIABLES x, s, edits, last, res

vars == <<x, s, edits, last, res>>

----------------------------------------------------------------------------
(* Bounds of the model.                                                    *)

\* how many of the byte values of ByteVals the input identifiers draw from
NumByteValues == 3

\* how many single-character edits a text may receive before it is parsed
MaxEdits == 2

----------------------------------------------------------------------------
(* ASCII.                                                                  *)

Range(a, b) == [i \in 1..(b - a + 1) |-> a + i - 1]

Ascii ==
    [ plus |-> 43, minus |-> 45, slash |-> 47, pad |-> 61, underscore |-> 95,
      space |-> 32, lf |-> 10, cr |-> 13, tab |-> 9, vt |-> 11, ff |-> 12,
      lparen |-> 40, rparen |-> 41, B |-> 66 ]

----------------------------------------------------------------------------
(* The base64 crate as lib.rs configures and calls it.  The calls are those *)
(* of base64 0.9: Config::new takes (char_set, pad, strip_whitespace,       *)
(* line_wrap) and Base64Display::with_config returns a Result.  That        *)
(* decoder ignores config.pad (padding is optional on input) and does not   *)
(* examine the unused low bits of the last symbol.                          *)

\* LineWrap::NoWrap and LineWrap::Wrap(line_len, line_ending)
NoWrap == [kind |-> "NoWrap"]
Wrap(line_len, line_ending) ==
    [kind |-> "Wrap", line_len |-> line_len, line_ending |-> line_ending]
LF == <<Ascii.lf>>

\* Config::new(char_set, pad, strip_whitespace, line_wrap)
Config_new(char_set, pad, strip_whitespace, line_wrap) ==
    [ char_set |-> char_set, pad |-> pad,
      strip_whitespace |-> strip_whitespace, line_wrap |-> line_wrap ]

\* faulty configurations: padding on; a line length that is no multiple
\* of four
B64_CONFIG_Padded == Config_new("UrlSafe", TRUE, TRUE, NoWrap)
B64_CONFIG_BadWrap == Config_new("UrlSafe", FALSE, TRUE, Wrap(5, LF))

\* lazy_static! { static ref B64_CONFIG: Config = Config::new(...) }
B64_CONFIG == Config_new("UrlSafe", FALSE, TRUE, NoWrap)

\* faulty variant: the lower-case letters before the upper-case ones
EncodeTableLowerFirst(char_set) ==
    Range(97, 122) \o Range(65, 90) \o Range(48, 57)
    \o <<Ascii.minus, Ascii.underscore>>

\* the 64 symbols of a character set, symbol i at index i + 1
AlphaNum == Range(65, 90) \o Range(97, 122) \o Range(48, 57)

EncodeTable(char_set) ==
    IF char_set = "UrlSafe"
    THEN AlphaNum \o <<Ascii.minus, Ascii.underscore>>
    ELSE AlphaNum \o <<Ascii.plus, Ascii.slash>>

\* the decode table's entry for a byte that is no symbol of the set
INVALID_VALUE == 255

\* decode table: the 6-bit value of a byte, or INVALID_VALUE
DecodeMorsel(char_set, b) ==
    LET t == EncodeTable(char_set)
    IN  IF \E i \in 1..64 : t[i] = b
        THEN (CHOOSE i \in 1..64 : t[i] = b) - 1
        ELSE INVALID_VALUE

\* faulty variant: the two data bits of a trailing byte are dropped from the last
\* symbol of a 3n+1 byte input
RECURSIVE EncodeMorselsDropTail(_)
EncodeMorselsDropTail(bytes) ==
    IF Len(bytes) = 0 THEN <<>>
    ELSE IF Len(bytes) = 1
         THEN <<bytes[1] \div 4, 0>>
    ELSE IF Len(bytes) = 2
         THEN <<bytes[1] \div 4,
                (bytes[1] % 4) * 16 + bytes[2] \div 16,
                (bytes[2] % 16) * 4>>
    ELSE <<bytes[1] \div 4,
           (bytes[1] % 4) * 16 + bytes[2] \div 16,
           (bytes[2] % 16) * 4 + bytes[3] \div 64,
           bytes[3] % 64>>
         \o EncodeMorselsDropTail(SubSeq(bytes, 4, Len(bytes)))

\* encoding: 6-bit groups, most significant bit first; three bytes make four
\* symbols, a trailing byte two symbols (the second carrying two data bits
\* and four zero bits), two trailing bytes three symbols
RECURSIVE EncodeMorsels(_)
EncodeMorsels(bytes) ==
    IF Len(bytes) = 0 THEN <<>>
    ELSE IF Len(bytes) = 1
         THEN <<bytes[1] \div 4, (bytes[1] % 4) * 16>>
    ELSE IF Len(bytes) = 2
         THEN <<bytes[1] \div 4,
                (bytes[1] % 4) * 16 + bytes[2] \div 16,
                (bytes[2] % 16) * 4>>
    ELSE <<bytes[1] \div 4,
           (bytes[1] % 4) * 16 + bytes[2] \div 16,
           (bytes[2] % 16) * 4 + bytes[3] \div 64,
           bytes[3] % 64>>
         \o EncodeMorsels(SubSeq(bytes, 4, Len(bytes)))

\* '=' up to a multiple of four symbols, when the configuration pads
Padding(n, with_pad) ==
    IF with_pad /\ n % 4 # 0 THEN [i \in 1..(4 - (n % 4)) |-> Ascii.pad] ELSE <<>>

\* the line ending after every line_len characters but the last line's
RECURSIVE WrapLines(_, _, _)
WrapLines(text, line_len, line_ending) ==
    IF Len(text) <= line_len THEN text
    ELSE SubSeq(text, 1, line_len) \o line_ending
         \o WrapLines(SubSeq(text, line_len + 1, Len(text)), line_len, line_ending)

\* what a Base64Display writes: base64::encode_config(bytes, config)
encode_config(bytes, config) ==
    LET t == EncodeTable(config.char_set)
        m == EncodeMorsels(bytes)
        syms == [i \in 1..Len(m) |-> t[m[i] + 1]]
        padded == syms \o Padding(Len(syms), config.pad)
    IN  IF config.line_wrap.kind = "Wrap"
        THEN WrapLines(padded, config.line_wrap.line_len, config.line_wrap.line_ending)
        ELSE padded

\* Base64Display::with_config(bytes, config): Err(InvalidLineLength) for a
\* wrapping line length that is no multiple of four
Base64Display_with_config(bytes, config) ==
    IF config.line_wrap.kind = "Wrap" /\ config.line_wrap.line_len % 4 # 0
    THEN [ok |-> FALSE, err |-> "InvalidLineLength"]
    ELSE [ok |-> TRUE, val |-> [bytes |-> bytes, config |-> config]]

\* the bytes the decoder strips when config.strip_whitespace is set
Whitespace ==
    {Ascii.space, Ascii.lf, Ascii.tab, Ascii.cr, Ascii.vt, Ascii.ff}

copy_without_whitespace(input) ==
    SelectSeq(input, LAMBDA b : b \notin Whitespace)

\* faulty variant: the last symbol of a 4n+2 symbol input is not read
RECURSIVE DecodeMorselsDropTail(_)
DecodeMorselsDropTail(m) ==
    IF Len(m) < 2 THEN <<>>
    ELSE IF Len(m) = 2
         THEN <<m[1] * 4>>
    ELSE IF Len(m) = 3
         THEN <<m[1] * 4 + m[2] \div 16, (m[2] % 16) * 16 + m[3] \div 4>>
    ELSE <<m[1] * 4 + m[2] \div 16,
           (m[2] % 16) * 16 + m[3] \div 4,
           (m[3] % 4) * 64 + m[4]>>
         \o DecodeMorselsDropTail(SubSeq(m, 5, Len(m)))

\* decoding of 6-bit values to bytes, most significant bit first; the bits
\* of the last symbol that do not fill a byte are discarded unexamined
RECURSIVE DecodeMorsels(_)
DecodeMorsels(m) ==
    IF Len(m) < 2 THEN <<>>
    ELSE IF Len(m) = 2
         THEN <<m[1] * 4 + m[2] \div 16>>
    ELSE IF Len(m) = 3
         THEN <<m[1] * 4 + m[2] \div 16, (m[2] % 16) * 16 + m[3] \div 4>>
    ELSE <<m[1] * 4 + m[2] \div 16,
           (m[2] % 16) * 16 + m[3] \div 4,
           (m[3] % 4) * 64 + m[4]>>
         \o DecodeMorsels(SubSeq(m, 5, Len(m)))

\* decode_helper: the input in chunks of eight; every chunk before the last
\* holds symbols only; the last chunk (the leftovers) may end in '=' at
\* offsets 2 and 3 of a quad, with nothing but '=' after the first '='
decode_helper(input, char_set) ==
    LET n == Len(input)
        start == IF n = 0 THEN 0
                 ELSE IF n % 8 = 0 THEN n - 8 ELSE n - (n % 8)
        morsel(i) == DecodeMorsel(char_set, input[i])
        badFast(i) == morsel(i) = INVALID_VALUE
        badLeft(i) ==
            IF input[i] = Ascii.pad
            THEN (i - 1 - start) % 4 < 2
            ELSE \/ \E j \in (start + 1)..(i - 1) : input[j] = Ascii.pad
                 \/ morsel(i) = INVALID_VALUE
        symIdx == {i \in 1..n : input[i] # Ascii.pad}
        nLeft == Cardinality({i \in symIdx : i > start})
    IN  IF n % 8 \in {1, 5}
        THEN [ok |-> FALSE, err |-> "InvalidLength"]
        ELSE IF \/ \E i \in 1..start : badFast(i)
                \/ \E i \in (start + 1)..n : badLeft(i)
        THEN [ok |-> FALSE, err |-> "InvalidByte"]
        ELSE IF nLeft \in {1, 5}
        THEN [ok |-> FALSE, err |-> "InvalidLength"]
        ELSE [ok |-> TRUE,
              val |-> DecodeMorsels([i \in 1..Cardinality(symIdx) |-> morsel(i)])]

\* base64::decode_config(input, config)
decode_config(input, config) ==
    decode_helper(IF config.strip_whitespace
                  THEN copy_without_whitespace(input)
                  ELSE input,
                  config.char_set)

----------------------------------------------------------------------------
(* The uuid crate as lib.rs calls it.                                      *)

UuidLen == 16

\* faulty variant: bytes beyond the sixteenth are cut off
Uuid_from_bytes_truncating(b) ==
    IF Len(b) < 16
    THEN [ok |-> FALSE, err |-> "InvalidLength"]
    ELSE [ok |-> TRUE, val |-> SubSeq(b, 1, 16)]

\* Uuid::from_bytes(b): Err(InvalidLength) unless b has 16 bytes
Uuid_from_bytes(b) ==
    IF Len(b) # UuidLen
    THEN [ok |-> FALSE, err |-> "InvalidLength"]
    ELSE [ok |-> TRUE, val |-> b]

\* Uuid::new_v4(): 16 random bytes with the variant and version bits set
Uuid_new_v4(rnd) ==
    [i \in 1..UuidLen |->
        IF i = 7 THEN (rnd[i] % 16) + 64
        ELSE IF i = 9 THEN (rnd[i] % 64) + 128
        ELSE rnd[i]]

----------------------------------------------------------------------------
(* lib.rs.                                                                 *)

\* ErrorKind::ParseError(String) of mod errors
ParseError(text) == [kind |-> "ParseError", text |-> text]

Ok(v) == [ok |-> TRUE, val |-> v]
Err(e) == [ok |-> FALSE, err |-> e]
Panic == [ok |-> FALSE, panic |-> TRUE]
None == [none |-> TRUE]

\* pub struct UuidB64(uuid::Uuid)
UuidB64(id) == [f0 |-> id]

\* UuidB64::new
new(rnd) == UuidB64(Uuid_new_v4(rnd))

\* UuidB64::uuid
uuid(self) == self.f0

\* faulty variant: the error carries the text the decoder saw, whitespace stripped
from_str_stripped(str) ==
    LET bytes == decode_config(str, B64_CONFIG)
        e == Err(ParseError(copy_without_whitespace(str)))
    IN  IF ~bytes.ok THEN e
        ELSE LET id == Uuid_from_bytes(bytes.val)
             IN  IF ~id.ok THEN e ELSE Ok(UuidB64(id.val))

\* faulty variant: the decoded bytes are wrapped without the length check
from_str_unchecked(str) ==
    LET bytes == decode_config(str, B64_CONFIG)
    IN  IF ~bytes.ok
        THEN Err(ParseError(str))
        ELSE Ok(UuidB64(bytes.val))

\* <UuidB64 as FromStr>::from_str
from_str(str) ==
    LET bytes == decode_config(str, B64_CONFIG)
    IN  IF ~bytes.ok
        THEN Err(ParseError(str))
        ELSE LET id == Uuid_from_bytes(bytes.val)
             IN  IF ~id.ok
                 THEN Err(ParseError(str))
                 ELSE Ok(UuidB64(id.val))

\* <UuidB64 as From<T>>::from, T = Uuid
From(item) == UuidB64(item)

\* <UuidB64 as Display>::fmt: the unwrap panics on Err
fmt_Display(self) ==
    LET wrapper == Base64Display_with_config(self.f0, B64_CONFIG)
    IN  IF ~wrapper.ok
        THEN Panic
        ELSE Ok(encode_config(wrapper.val.bytes, wrapper.val.config))

DebugLabel == <<85, 117, 105, 100, 66, 54, 52, Ascii.lparen>>

\* faulty variant: the label without its closing parenthesis
fmt_Debug_open(self) ==
    LET d == fmt_Display(self)
    IN  IF ~d.ok THEN d ELSE Ok(DebugLabel \o d.val)

\* <UuidB64 as Debug>::fmt: write!(f, "UuidB64({})", self)
fmt_Debug(self) ==
    LET d == fmt_Display(self)
    IN  IF ~d.ok THEN d ELSE Ok(DebugLabel \o d.val \o <<Ascii.rparen>>)

\* faulty variant: an equality that leaves the last byte out
eq_prefix(a, b) == SubSeq(a.f0, 1, UuidLen - 1) = SubSeq(b.f0, 1, UuidLen - 1)

\* #[derive(PartialEq, Eq)]: field by field, and Uuid's is byte by byte
eq(a, b) == a.f0 = b.f0

\* #[derive(Hash)]: what is fed to the Hasher, the bytes in order
hash(a) == [i \in 1..UuidLen |-> a.f0[i]]

----------------------------------------------------------------------------
(* Inputs.                                                                 *)

\* Uuid::parse_str("b0c1ee86-6f46-4f1b-8d8b-7849e75dbcee")
KnownId ==
    <<176, 193, 238, 134, 111, 70, 79, 27, 141, 139, 120, 73, 231, 93, 188, 238>>

\* "sMHuhm9GTxuNi3hJ51287g"
KnownText ==
    <<115, 77, 72, 117, 104, 109, 57, 71, 84, 120, 117,
      78, 105, 51, 104, 74, 53, 49, 50, 56, 55, 103>>

ByteVals == <<0, 255, 1, 128, 170, 85>>
Palette == {ByteVals[i] : i \in 1..NumByteValues}

Fill(f) == [i \in 1..UuidLen |-> f]
Patch(u, p, v) == [u EXCEPT ![p] = v]

\* the raw identifiers a caller hands to From
Inputs ==
    {KnownId} \cup {Patch(Fill(f), p, v) : f \in Palette, p \in 1..UuidLen, v \in Palette}

\* the random bytes new_v4 may draw
RandomPool == {KnownId} \cup {Fill(f) : f \in Palette}

\* the characters a caller may put into a text: padding, whitespace, a
\* character of the standard alphabet only, a symbol
EditChars == {Ascii.pad, Ascii.space, Ascii.plus, Ascii.B}

----------------------------------------------------------------------------
(* The state machine: a caller holds a value x and a text s, and applies   *)
(* the library's operations; last names the operation applied last and res *)
(* holds what it returned.                                                 *)

Init ==
    /\ x = From(KnownId)
    /\ s = <<>>
    /\ edits = 0
    /\ last = "From"
    /\ res = None

\* let x = UuidB64::from(v)
DoFrom ==
    \E v \in Inputs :
        /\ s = <<>>
        /\ x' = From(v)
        /\ s' = <<>>
        /\ edits' = 0
        /\ last' = "From"
        /\ res' = None

\* let x = UuidB64::new()
DoNew ==
    \E rnd \in RandomPool :
        /\ s = <<>>
        /\ x' = new(rnd)
        /\ s' = <<>>
        /\ edits' = 0
        /\ last' = "New"
        /\ res' = None

\* let s = x.to_string()
DoDisplay ==
    /\ res' = fmt_Display(x)
    /\ s' = IF res'.ok THEN res'.val ELSE s
    /\ edits' = 0
    /\ last' = "Display"
    /\ UNCHANGED x

\* format!("{:?}", x)
DoDebug ==
    /\ res' = fmt_Debug(x)
    /\ last' = "Debug"
    /\ UNCHANGED <<x, s, edits>>

\* the caller's text gets a character at its end
PushBack ==
    /\ edits < MaxEdits
    /\ \E c \in EditChars : s' = Append(s, c)
    /\ edits' = edits + 1
    /\ last' = "Edit"
    /\ res' = None
    /\ UNCHANGED x

\* the caller's text gets a character at its start
PushFront ==
    /\ edits < MaxEdits
    /\ \E c \in EditChars : s' = <<c>> \o s
    /\ edits' = edits + 1
    /\ last' = "Edit"
    /\ res' = None
    /\ UNCHANGED x

\* the caller's text loses its last character
DeleteLast ==
    /\ edits < MaxEdits
    /\ s # <<>>
    /\ s' = SubSeq(s, 1, Len(s) - 1)
    /\ edits' = edits + 1
    /\ last' = "Edit"
    /\ res' = None
    /\ UNCHANGED x

\* the caller's text loses its first character
DeleteFirst ==
    /\ edits < MaxEdits
    /\ s # <<>>
    /\ s' = Tail(s)
    /\ edits' = edits + 1
    /\ last' = "Edit"
    /\ res' = None
    /\ UNCHANGED x

\* s.parse::<UuidB64>()
DoFromStr ==
    /\ res' = from_str(s)
    /\ last' = "FromStr"
    /\ UNCHANGED <<x, s, edits>>

Next ==
    \/ DoFrom
    \/ DoNew
    \/ DoDisplay
    \/ DoDebug
    \/ PushBack
    \/ PushFront
    \/ DeleteLast
    \/ DeleteFirst
    \/ DoFromStr

Spec == Init /\ [][Next]_vars

----------------------------------------------------------------------------
(* Vocabulary of the properties.                                           *)

\* [A-Za-z0-9_-]
UrlSafeAlphabet == (65..90) \cup (97..122) \cup (48..57) \cup {45, 95}

AsciiWhitespace == {9, 10, 11, 12, 13, 32}

TextLen == 22

\* the characters of a text that are symbols of the alphabet, in order
Symbols(text) == SelectSeq(text, LAMBDA b : b \in UrlSafeAlphabet)

\* a character that is no symbol, no whitespace and no '='
HasForeign(text) ==
    \E i \in 1..Len(text) : text[i] \notin UrlSafeAlphabet \cup AsciiWhitespace \cup {61}

\* a '=' with a symbol somewhere after it
PadBeforeSymbol(text) ==
    \E i, j \in 1..Len(text) : i < j /\ text[i] = 61 /\ text[j] \in UrlSafeAlphabet

\* the text x.to_string() returned is still the caller's text
HoldsDisplayOf == edits = 0 /\ s # <<>>

Differ(a, b) == {i \in 1..UuidLen : a[i] # b[i]}

----------------------------------------------------------------------------
(* Properties.                                                             *)

\* C1: round trip.  Parsing the text Display produced for a value, whether
\* the value was wrapped by From or generated by new, succeeds and returns
\* a value equal to it.
ThmRoundTrip ==
    (last = "FromStr" /\ HoldsDisplayOf) => (res.ok /\ res.val = x /\ eq(res.val, x))

WitRoundTrip ==
    /\ last = "FromStr" /\ HoldsDisplayOf /\ res.ok
    /\ x = From(Patch(Fill(0), UuidLen, 255))

\* C2: fixed length and alphabet.  The Display text of every value, version
\* 4 or not, has exactly 22 characters, each of [A-Za-z0-9_-]; none is '=',
\* whitespace or a line break.
ThmFixedLength ==
    last = "Display" =>
        /\ res.ok
        /\ Len(res.val) = TextLen
        /\ \A i \in 1..Len(res.val) : res.val[i] \in UrlSafeAlphabet
        /\ \A i \in 1..Len(res.val) : res.val[i] \notin AsciiWhitespace \cup {61}

WitFixedLength ==
    /\ last = "Display" /\ res.ok
    /\ x = From(Fill(255))
    /\ \E i \in 1..Len(res.val) : res.val[i] = 95

\* C3: known answer.  The value made from b0c1ee86-6f46-4f1b-8d8b-
\* 7849e75dbcee displays as "sMHuhm9GTxuNi3hJ51287g", whose last symbol
\* carries two data bits and four zero bits, and parsing that text yields a
\* value whose uuid() is that identifier.
ThmKnownAnswer ==
    /\ (last = "Display" /\ x = From(KnownId)) =>
           /\ res = Ok(KnownText)
           /\ DecodeMorsel("UrlSafe", res.val[TextLen]) % 16 = 0
           /\ DecodeMorsel("UrlSafe", res.val[TextLen]) \div 16 = KnownId[UuidLen] % 4
    /\ (last = "FromStr" /\ s = KnownText) => (res.ok /\ uuid(res.val) = KnownId)

WitKnownAnswer ==
    last = "FromStr" /\ s = KnownText /\ res.ok /\ uuid(res.val) = KnownId

\* C4, as claimed: from_str fails on every text with a character outside
\* the url-safe alphabet ('=' and '+' in particular) and on every text of
\* symbols whose length is not 22.
CexParseRejectsMalformed ==
    (last = "FromStr" /\ (\/ \E i \in 1..Len(s) : s[i] \notin UrlSafeAlphabet
                          \/ Len(s) # TextLen))
        => ~res.ok

\* C4, amended: from_str fails with ParseError on every text that holds a
\* character that is neither a symbol nor ASCII whitespace nor '=' ('+' in
\* particular), on every text with a '=' before a symbol, and on every text
\* whose number of symbols is not 22 (21 or 23 in particular).
ThmParseRejects ==
    (last = "FromStr" /\ (\/ HasForeign(s)
                          \/ PadBeforeSymbol(s)
                          \/ Len(Symbols(s)) # TextLen))
        => (~res.ok /\ res.err.kind = "ParseError")

WitParseRejects ==
    /\ last = "FromStr" /\ ~res.ok
    /\ ~HasForeign(s) /\ ~PadBeforeSymbol(s)
    /\ Len(Symbols(s)) = TextLen + 1

\* C5: error payload.  On both failure paths, the decoder's and the length
\* check's, from_str returns ParseError carrying its input unchanged; a
\* failure never yields a value.
ThmErrorPayload ==
    last = "FromStr" =>
        LET bytes == decode_config(s, B64_CONFIG)
        IN  /\ ~bytes.ok => res = Err(ParseError(s))
            /\ (bytes.ok /\ Len(bytes.val) # UuidLen) => res = Err(ParseError(s))
            /\ ~res.ok => res = Err(ParseError(s))

WitErrorPayload ==
    /\ last = "FromStr" /\ ~res.ok /\ res.err.text = s
    /\ decode_config(s, B64_CONFIG).ok
    /\ \E i \in 1..Len(s) : s[i] \in AsciiWhitespace

\* C6: injectivity.  The Display text of a value differs from the Display
\* text of every other value.
ThmInjective ==
    (last = "Display" /\ res.ok) =>
        \A v \in Inputs \cup {Uuid_new_v4(r) : r \in RandomPool} :
            From(v) # x => fmt_Display(From(v)) # res

WitInjective ==
    /\ last = "Display" /\ res.ok
    /\ \E v \in Inputs : Differ(v, uuid(x)) = {UuidLen} /\ v[UuidLen] \div 4 = uuid(x)[UuidLen] \div 4

\* C7: equality and hashing are structural.  A parsed value and a wrapped
\* one are equal exactly when their 16 bytes agree, equal values feed the
\* same bytes to a hasher, and the value parsed from the text of a value is
\* equal to it.
ThmEqHash ==
    (last = "FromStr" /\ res.ok) =>
        /\ eq(res.val, x) <=> Differ(uuid(res.val), uuid(x)) = {}
        /\ eq(res.val, x) => hash(res.val) = hash(x)
        /\ (fmt_Display(x).ok /\ s = fmt_Display(x).val) => eq(res.val, x)

WitEqHash ==
    /\ last = "FromStr" /\ res.ok
    /\ Differ(uuid(res.val), uuid(x)) = {UuidLen}

\* C8: Debug is "UuidB64(" then the Display text then ")".
ThmDebug ==
    last = "Debug" =>
        /\ res.ok
        /\ res.val = <<85, 117, 105, 100, 66, 54, 52, 40>> \o fmt_Display(x).val \o <<41>>
        /\ Len(res.val) = 8 + TextLen + 1
        /\ HoldsDisplayOf => SubSeq(res.val, 9, 8 + TextLen) = s

WitDebug ==
    last = "Debug" /\ res.ok /\ HoldsDisplayOf /\ x # From(KnownId)

\* C9, as claimed: every text from_str accepts is the Display text of the
\* value it returns.
CexCanonicalOnly ==
    (last = "FromStr" /\ res.ok) => fmt_Display(res.val) = Ok(s)

\* C9, amended: every text from_str accepts, once its ASCII whitespace and
\* its '=' are removed, has 22 symbols that agree with the Display text of
\* the value it returns in the first 21 symbols and in the two data bits of
\* the last; a text of 22 symbols whose last has four zero low bits is that
\* Display text.
ThmCanonicalCore ==
    (last = "FromStr" /\ res.ok) =>
        LET core == Symbols(s)
            text == fmt_Display(res.val).val
        IN  /\ Len(core) = TextLen
            /\ SubSeq(core, 1, TextLen - 1) = SubSeq(text, 1, TextLen - 1)
            /\ DecodeMorsel("UrlSafe", core[TextLen]) \div 16
                   = DecodeMorsel("UrlSafe", text[TextLen]) \div 16
            /\ (s = core /\ DecodeMorsel("UrlSafe", core[TextLen]) % 16 = 0) => text = s

WitCanonicalCore ==
    /\ last = "FromStr" /\ res.ok
    /\ \E i \in 1..Len(s) : s[i] \in AsciiWhitespace
    /\ \E i \in 1..Len(s) : s[i] = 61
    /\ fmt_Display(res.val).val # s

\* C10: Display never panics.  The configuration wraps no lines, and the
\* unwrap of Base64Display::with_config never meets an Err.
ThmDisplayTotal ==
    /\ B64_CONFIG.line_wrap = NoWrap
    /\ last \in {"Display", "Debug"} => (res.ok /\ res # Panic)

WitDisplayTotal ==
    last = "Display" /\ res.ok /\ x = new(Fill(0))

====
